---- MODULE Spec2Model ----
(***************************************************************************)
(* Model of the wiki-service request handlers (app/routes.py, identical to *)
(* the single-file variant main.py): users and posts tables, the two       *)
(* Prometheus counters, and concurrent requests that suspend at every      *)
(* awaited store call (commit, refresh, rollback, execute).                *)
(*                                                                         *)
(* Library semantics the handlers rely on:                                 *)
(*  - the users table has unique indexes on username and on email; the     *)
(*    INSERT and the index check are one atomic store step;                *)
(*  - ids come from a store sequence that is advanced by every INSERT that *)
(*    reaches the store, also by one rejected for a unique violation;      *)
(*  - Session.commit() that raises has already rolled back and closed the  *)
(*    session transaction, so the handler's rollback() is then a no-op;    *)
(*    refresh() begins a new transaction, so rollback() after a failed     *)
(*    refresh is a store call and may itself raise;                        *)
(*  - `async with async_session_maker()` closes the session on every exit  *)
(*    of the block;                                                        *)
(*  - Counter.inc() is atomic; an exception that escapes a handler is a    *)
(*    500 response.                                                        *)
(***************************************************************************)
EXTENDS Integers, Sequences, FiniteSets, Bags, TLC

\* ---- bounds ----
MaxReq == 2         \* requests in flight at the same time
MaxCreates == 2     \* INSERTs that reach the store, over both tables
MaxSkip == 1        \* largest skip tried by a listing
MaxLimit == 1       \* largest non-default limit tried by a listing

\* ---- program constants ----
DefaultSkip == 0
DefaultLimit == 10

Usernames == {"ann", "bob"}
Emails == {"a@x", "b@x"}
Titles == {"t1"}
Contents == {"c1"}
AuthorIds == {1, 9}
Ids == 0..(MaxCreates + 1)
Skips == (-1..MaxSkip) \cup {DefaultSkip}
Limits == (-1..MaxLimit) \cup {DefaultLimit}

VARIABLES
    users,                  \* rows of table users, in the store's scan order
    posts,                  \* rows of table posts, in the store's scan order
    users_id_seq,           \* last value of the users id sequence
    posts_id_seq,           \* last value of the posts id sequence
    users_created_total,    \* Counter
    posts_created_total,    \* Counter
    rq,                     \* bag of the requests in flight: position, session, ORM object
    response,               \* the response the step just taken sent, if it sent one
    faults                  \* whether the store of this run can fail (outage)

store == <<users, posts, users_id_seq, posts_id_seq>>
counters == <<users_created_total, posts_created_total>>
vars == <<users, posts, users_id_seq, posts_id_seq, users_created_total,
          posts_created_total, rq, response, faults>>

NoObj == [id |-> 0]
NoArg == [none |-> 0]
NoResponse == [kind |-> "none", arg |-> NoArg, status |-> 0, body |-> NoArg,
               session |-> "none", obj |-> NoObj]

\* ---- pure helpers ----

Min(a, b) == IF a < b THEN a ELSE b

\* Column(Integer, primary_key=True): the store assigns the next sequence value
NextVal(seq) == seq + 1

\* datetime.utcnow: a logical clock that advances with every INSERT
utcnow == 1000 + users_id_seq + posts_id_seq

\* mutant: the counter is overwritten (set) instead of incremented
IncOverwrite(c) == 1

\* Counter.inc()
Inc(c) == c + 1

\* mutant: the unique index on email is missing
UniqueViolationUsernameOnly(tbl, username, email) ==
    \E i \in 1..Len(tbl) : tbl[i].username = username

\* mutant: the unique index on username is missing
UniqueViolationEmailOnly(tbl, username, email) ==
    \E i \in 1..Len(tbl) : tbl[i].email = email

\* unique=True on username and on email
UniqueViolation(tbl, username, email) ==
    \E i \in 1..Len(tbl) : tbl[i].username = username \/ tbl[i].email = email

\* mutant: the filter on the id is missing
SelectFirst(tbl, id) == IF tbl = <<>> THEN <<>> ELSE <<tbl[1]>>

\* select(...).filter(X.id == id) ; scalar_one_or_none(): the matching rows
SelectById(tbl, id) == SelectSeq(tbl, LAMBDA row : row.id = id)

\* mutant: the offset is not applied
LimitOnly(tbl, skip, limit) == SubSeq(tbl, 1, Min(Len(tbl), limit))

\* select(...).offset(skip).limit(limit) over the store's scan order
OffsetLimit(tbl, skip, limit) ==
    SubSeq(tbl, skip + 1, Min(Len(tbl), skip + limit))

\* mutant: the schema lacks the email field
UserResponseNoEmail(row) == [id |-> row.id, username |-> row.username]

\* response_model=UserResponse (from_attributes): the fields of the schema
UserResponse(row) == [id |-> row.id, username |-> row.username, email |-> row.email]

\* response_model=PostResponse
PostResponse(row) ==
    [id |-> row.id, title |-> row.title, content |-> row.content,
     author_id |-> row.author_id]

UserResponses(rows) == [i \in 1..Len(rows) |-> UserResponse(rows[i])]
PostResponses(rows) == [i \in 1..Len(rows) |-> PostResponse(rows[i])]

\* how many requests in flight are one of S
InFlight(S) == BagCardinality([q \in S \cap BagToSet(rq) |-> rq[q]])

\* INSERTs not yet sent by requests in flight
PendingInserts == InFlight({q \in BagToSet(rq) : q.pc = "commit"})

Init ==
    /\ users = <<>>
    /\ posts = <<>>
    /\ users_id_seq = 0
    /\ posts_id_seq = 0
    /\ users_created_total = 0
    /\ posts_created_total = 0
    /\ rq = EmptyBag
    /\ response = NoResponse
    /\ faults \in BOOLEAN

\* a handler is entered: `async with async_session_maker() as session`
Enter(q) ==
    /\ BagCardinality(rq) < MaxReq
    /\ rq' = rq (+) SetToBag({q})
    /\ response' = NoResponse

\* request q moves on to q2 across an awaited store call
Resume(q, q2) ==
    /\ rq' = (rq (-) SetToBag({q})) (+) SetToBag({q2})
    /\ response' = NoResponse

\* the response leaves the handler; `async with` has closed the session
Complete(q, status, body, arg) ==
    /\ response' = [kind |-> q.kind, arg |-> arg, status |-> status, body |-> body,
                    session |-> "closed", obj |-> q.obj]
    /\ rq' = rq (-) SetToBag({q})

Session(kind) ==
    [kind |-> kind, pc |-> "execute", session |-> "open", tx |-> FALSE,
     obj |-> NoObj, exc |-> "None"]

\* ---- POST /users/ ----

UserArg(o) == [username |-> o.username, email |-> o.email]

create_user_begin ==
    /\ users_id_seq + posts_id_seq + PendingInserts < MaxCreates
    /\ \E u \in Usernames, e \in Emails :
         Enter([Session("create_user") EXCEPT
                  !.pc = "commit",
                  !.obj = [id |-> 0, username |-> u, email |-> e, created_at |-> 0]])
    /\ UNCHANGED <<store, counters, faults>>

create_user_commit(q) ==
    /\ q.kind = "create_user" /\ q.pc = "commit"
    /\ \/ /\ faults
          /\ Resume(q, [q EXCEPT !.pc = "rollback", !.exc = "OperationalError"])
          /\ UNCHANGED store
       \/ /\ UniqueViolation(users, q.obj.username, q.obj.email)
          /\ users_id_seq' = NextVal(users_id_seq)
          /\ Resume(q, [q EXCEPT !.pc = "rollback", !.exc = "IntegrityError"])
          /\ UNCHANGED <<users, posts, posts_id_seq>>
       \/ /\ ~UniqueViolation(users, q.obj.username, q.obj.email)
          /\ LET row == [q.obj EXCEPT !.id = NextVal(users_id_seq),
                                      !.created_at = utcnow] IN
             /\ users' = Append(users, row)
             /\ Resume(q, [q EXCEPT !.pc = "refresh", !.obj = row])
          /\ users_id_seq' = NextVal(users_id_seq)
          /\ UNCHANGED <<posts, posts_id_seq>>
    /\ UNCHANGED <<counters, faults>>

create_user_refresh(q) ==
    /\ q.kind = "create_user" /\ q.pc = "refresh"
    /\ \/ /\ faults
          /\ Resume(q, [q EXCEPT !.pc = "rollback", !.exc = "OperationalError",
                                 !.tx = TRUE])
       \/ Resume(q, [q EXCEPT !.pc = "return", !.tx = TRUE,
                              !.obj = SelectById(users, q.obj.id)[1]])
    /\ UNCHANGED <<store, counters, faults>>

\* mutant: the counter is not incremented
create_user_return_no_inc(q) ==
    /\ q.kind = "create_user" /\ q.pc = "return"
    /\ Complete(q, 200, UserResponse(q.obj), UserArg(q.obj))
    /\ UNCHANGED <<store, counters, faults>>

create_user_return(q) ==
    /\ q.kind = "create_user" /\ q.pc = "return"
    /\ users_created_total' = Inc(users_created_total)
    /\ Complete(q, 200, UserResponse(q.obj), UserArg(q.obj))
    /\ UNCHANGED <<store, posts_created_total, faults>>

\* mutant: the session is not closed when the rollback raises
create_user_rollback_leak(q) ==
    /\ q.kind = "create_user" /\ q.pc = "rollback"
    /\ \/ /\ faults /\ q.tx
          /\ response' = [kind |-> q.kind, arg |-> UserArg(q.obj), status |-> 500,
                          body |-> [detail |-> "Internal Server Error"],
                          session |-> "open", obj |-> q.obj]
          /\ rq' = rq (-) SetToBag({q})
       \/ Complete(q, 400, [detail |-> q.exc], UserArg(q.obj))
    /\ UNCHANGED <<store, counters, faults>>

create_user_rollback(q) ==
    /\ q.kind = "create_user" /\ q.pc = "rollback"
    /\ \/ /\ faults /\ q.tx
          /\ Complete(q, 500, [detail |-> "Internal Server Error"], UserArg(q.obj))
       \/ Complete(q, 400, [detail |-> q.exc], UserArg(q.obj))
    /\ UNCHANGED <<store, counters, faults>>

\* ---- GET /users/{user_id} ----

\* lines 37-41 when the statement does not raise
get_user(tbl, user_id) ==
    LET found == SelectById(tbl, user_id) IN
    IF found = <<>> THEN [status |-> 404, body |-> [detail |-> "User not found"]]
    ELSE [status |-> 200, body |-> UserResponse(found[1])]

get_user_begin ==
    /\ Enter(Session("get_user"))
    /\ UNCHANGED <<store, counters, faults>>

get_user_execute(q) ==
    /\ q.kind = "get_user" /\ q.pc = "execute"
    /\ \E user_id \in Ids :
         LET res == get_user(users, user_id) IN
         \/ /\ faults
            /\ Complete(q, 500, [detail |-> "Internal Server Error"],
                        [user_id |-> user_id])
         \/ Complete(q, res.status, res.body, [user_id |-> user_id])
    /\ UNCHANGED <<store, counters, faults>>

\* ---- GET /users/ ----

\* lines 47-49 when the statement does not raise
list_users(tbl, skip, limit) == UserResponses(OffsetLimit(tbl, skip, limit))

list_users_begin ==
    /\ Enter(Session("list_users"))
    /\ UNCHANGED <<store, counters, faults>>

list_users_execute(q) ==
    /\ q.kind = "list_users" /\ q.pc = "execute"
    /\ \E skip \in Skips, limit \in Limits :
         LET arg == [skip |-> skip, limit |-> limit] IN
         \/ /\ faults \/ skip < 0 \/ limit < 0
            /\ Complete(q, 500, [detail |-> "Internal Server Error"], arg)
         \/ /\ skip >= 0 /\ limit >= 0
            /\ Complete(q, 200, list_users(users, skip, limit), arg)
    /\ UNCHANGED <<store, counters, faults>>

\* ---- POST /posts/ ----

PostArg(o) == [title |-> o.title, content |-> o.content, author_id |-> o.author_id]

create_post_begin ==
    /\ users_id_seq + posts_id_seq + PendingInserts < MaxCreates
    /\ \E t \in Titles, c \in Contents, a \in AuthorIds :
         Enter([Session("create_post") EXCEPT
                  !.pc = "commit",
                  !.obj = [id |-> 0, title |-> t, content |-> c, author_id |-> a,
                           created_at |-> 0]])
    /\ UNCHANGED <<store, counters, faults>>

create_post_commit(q) ==
    /\ q.kind = "create_post" /\ q.pc = "commit"
    /\ \/ /\ faults
          /\ Resume(q, [q EXCEPT !.pc = "rollback", !.exc = "OperationalError"])
          /\ UNCHANGED store
       \/ /\ LET row == [q.obj EXCEPT !.id = NextVal(posts_id_seq),
                                      !.created_at = utcnow] IN
             /\ posts' = Append(posts, row)
             /\ Resume(q, [q EXCEPT !.pc = "refresh", !.obj = row])
          /\ posts_id_seq' = NextVal(posts_id_seq)
          /\ UNCHANGED <<users, users_id_seq>>
    /\ UNCHANGED <<counters, faults>>

create_post_refresh(q) ==
    /\ q.kind = "create_post" /\ q.pc = "refresh"
    /\ \/ /\ faults
          /\ Resume(q, [q EXCEPT !.pc = "rollback", !.exc = "OperationalError",
                                 !.tx = TRUE])
       \/ Resume(q, [q EXCEPT !.pc = "return", !.tx = TRUE,
                              !.obj = SelectById(posts, q.obj.id)[1]])
    /\ UNCHANGED <<store, counters, faults>>

create_post_return(q) ==
    /\ q.kind = "create_post" /\ q.pc = "return"
    /\ posts_created_total' = Inc(posts_created_total)
    /\ Complete(q, 200, PostResponse(q.obj), PostArg(q.obj))
    /\ UNCHANGED <<store, users_created_total, faults>>

create_post_rollback(q) ==
    /\ q.kind = "create_post" /\ q.pc = "rollback"
    /\ \/ /\ faults /\ q.tx
          /\ Complete(q, 500, [detail |-> "Internal Server Error"], PostArg(q.obj))
       \/ Complete(q, 400, [detail |-> q.exc], PostArg(q.obj))
    /\ UNCHANGED <<store, counters, faults>>

\* ---- GET /posts/{post_id} ----

\* lines 70-74 when the statement does not raise
get_post(tbl, post_id) ==
    LET found == SelectById(tbl, post_id) IN
    IF found = <<>> THEN [status |-> 404, body |-> [detail |-> "Post not found"]]
    ELSE [status |-> 200, body |-> PostResponse(found[1])]

get_post_begin ==
    /\ Enter(Session("get_post"))
    /\ UNCHANGED <<store, counters, faults>>

get_post_execute(q) ==
    /\ q.kind = "get_post" /\ q.pc = "execute"
    /\ \E post_id \in Ids :
         LET res == get_post(posts, post_id) IN
         \/ /\ faults
            /\ Complete(q, 500, [detail |-> "Internal Server Error"],
                        [post_id |-> post_id])
         \/ Complete(q, res.status, res.body, [post_id |-> post_id])
    /\ UNCHANGED <<store, counters, faults>>

\* ---- GET /posts/ ----

\* lines 80-82 when the statement does not raise
list_posts(tbl, skip, limit) == PostResponses(OffsetLimit(tbl, skip, limit))

list_posts_begin ==
    /\ Enter(Session("list_posts"))
    /\ UNCHANGED <<store, counters, faults>>

list_posts_execute(q) ==
    /\ q.kind = "list_posts" /\ q.pc = "execute"
    /\ \E skip \in Skips, limit \in Limits :
         LET arg == [skip |-> skip, limit |-> limit] IN
         \/ /\ faults \/ skip < 0 \/ limit < 0
            /\ Complete(q, 500, [detail |-> "Internal Server Error"], arg)
         \/ /\ skip >= 0 /\ limit >= 0
            /\ Complete(q, 200, list_posts(posts, skip, limit), arg)
    /\ UNCHANGED <<store, counters, faults>>

\* ---- GET /health ----

health_check_begin ==
    /\ Enter(Session("health_check"))
    /\ UNCHANGED <<store, counters, faults>>

\* mutant: the handler has no except clause
health_check_execute_unhandled(q) ==
    /\ q.kind = "health_check" /\ q.pc = "execute"
    /\ \/ /\ faults
          /\ Complete(q, 500, [detail |-> "Internal Server Error"], NoArg)
       \/ Complete(q, 200, [status |-> "healthy", database |-> "connected"], NoArg)
    /\ UNCHANGED <<store, counters, faults>>

health_check_execute(q) ==
    /\ q.kind = "health_check" /\ q.pc = "execute"
    /\ \/ /\ faults
          /\ Complete(q, 503, [detail |-> "Database connection failed: OperationalError"],
                      NoArg)
       \/ Complete(q, 200, [status |-> "healthy", database |-> "connected"], NoArg)
    /\ UNCHANGED <<store, counters, faults>>

\* ---- specifications ----

NoneInFlight == rq = EmptyBag

\* every handler, the requests served one after another
Next ==
    \/ NoneInFlight /\ create_user_begin
    \/ NoneInFlight /\ get_user_begin
    \/ NoneInFlight /\ list_users_begin
    \/ NoneInFlight /\ create_post_begin
    \/ NoneInFlight /\ get_post_begin
    \/ NoneInFlight /\ list_posts_begin
    \/ NoneInFlight /\ health_check_begin
    \/ \E q \in BagToSet(rq) :
        \/ create_user_commit(q)
        \/ create_user_refresh(q)
        \/ create_user_return(q)
        \/ create_user_rollback(q)
        \/ get_user_execute(q)
        \/ list_users_execute(q)
        \/ create_post_commit(q)
        \/ create_post_refresh(q)
        \/ create_post_return(q)
        \/ create_post_rollback(q)
        \/ get_post_execute(q)
        \/ list_posts_execute(q)
        \/ health_check_execute(q)

Spec == Init /\ [][Next]_vars

\* the two writing handlers, up to MaxReq requests in flight, under every
\* interleaving of their awaited store calls
NextWriters ==
    \/ create_user_begin
    \/ create_post_begin
    \/ \E q \in BagToSet(rq) :
        \/ create_user_commit(q)
        \/ create_user_refresh(q)
        \/ create_user_return(q)
        \/ create_user_rollback(q)
        \/ create_post_commit(q)
        \/ create_post_refresh(q)
        \/ create_post_return(q)
        \/ create_post_rollback(q)

SpecWriters == Init /\ [][NextWriters]_vars

\* ---- properties ----

Rows(tbl) == {tbl[i] : i \in 1..Len(tbl)}

\* a row other than the request's own holds its username or its email
TakenByOther(tbl, resp) ==
    \E row \in Rows(tbl) :
        /\ row.id # resp.obj.id
        /\ row.username = resp.arg.username \/ row.email = resp.arg.email

\* C1: a create_user that returns success returns the inserted row, whose
\* store-assigned id is > 0 and whose username and email are the input, and the
\* step that returns it raises users_created_total by exactly 1; while the store
\* does not fail, a create_user fails only if another row already holds its
\* username or email, so one whose username and email are absent succeeds.
C1_CreateUserSucceeds ==
    [][response'.kind = "create_user" =>
         /\ response'.status = 200 =>
              /\ response'.body.id > 0
              /\ response'.body.username = response'.arg.username
              /\ response'.body.email = response'.arg.email
              /\ \E row \in Rows(users') : UserResponse(row) = response'.body
              /\ users_created_total' = users_created_total + 1
         /\ (~faults /\ response'.status # 200) => TakenByOther(users', response')]_vars

C1_Witness ==
    /\ response.kind = "create_user" /\ response.status = 200
    /\ users_created_total = 2

\* C2: a create_user whose username or email is held by another row ends in 400,
\* has inserted no row, and its last step leaves the users table and
\* users_created_total as they were.
C2_DuplicateRejected ==
    [][(response'.kind = "create_user" /\ TakenByOther(users', response')) =>
         /\ response'.status = 400
         /\ response'.obj.id = 0
         /\ users' = users
         /\ users_created_total' = users_created_total]_vars

C2_Witness ==
    /\ response.kind = "create_user" /\ response.status = 400
    /\ response.body.detail = "IntegrityError"
    /\ TakenByOther(users, response)

\* the create_user requests that have inserted their row and not yet incremented
Counted == InFlight({q \in BagToSet(rq) : q.kind = "create_user"
                                           /\ q.pc \in {"refresh", "return"}})

\* C3: while the store does not fail, under every interleaving of the commit,
\* refresh and increment steps of concurrent create_user requests,
\* users_created_total plus the requests that have inserted their row and not yet
\* incremented equals the number of rows inserted: when the N requests are done
\* the counter is N, no increment is lost.
C3_NoLostUpdate ==
    ~faults => users_created_total + Counted = Len(users)

C3_Witness ==
    /\ ~faults
    /\ users_created_total = 1
    /\ \E q \in BagToSet(rq) : q.kind = "create_user" /\ q.pc = "return"

\* C4: no two rows of the users table share a username and no two share an email.
C4_UsersUnique ==
    \A i, j \in 1..Len(users) :
        i # j => /\ users[i].username # users[j].username
                 /\ users[i].email # users[j].email

C4_Witness ==
    /\ Len(users) = 1
    /\ \E q \in BagToSet(rq) : q.kind = "create_user" /\ q.exc = "IntegrityError"
    /\ \E q \in BagToSet(rq) : q.kind = "create_user" /\ q.pc = "refresh"

\* C5: get_user answers 200 only with the id, username and email of the row that
\* has the requested id, 404 only when no row has it, and anything else only when
\* the store fails; for the id a successful create_user has just returned it
\* answers 200 with that id and the username and email of the creation input.
C5_GetUser ==
    /\ response.kind = "get_user" =>
         /\ response.status = 200 =>
              \E row \in Rows(users) :
                  /\ row.id = response.arg.user_id
                  /\ response.body = [id |-> response.arg.user_id,
                                      username |-> row.username, email |-> row.email]
         /\ response.status = 404 =>
              \A row \in Rows(users) : row.id # response.arg.user_id
         /\ response.status \in {200, 404} \/ faults
    /\ (response.kind = "create_user" /\ response.status = 200) =>
         get_user(users, response.body.id) =
             [status |-> 200,
              body |-> [id |-> response.body.id, username |-> response.arg.username,
                        email |-> response.arg.email]]

C5_Witness ==
    /\ response.kind = "get_user" /\ response.status = 200
    /\ response.arg.user_id = 2

\* the unfiltered full listing the table answers
FullListing(kind) ==
    IF kind = "list_users" THEN UserResponses(users) ELSE PostResponses(posts)

\* C6: a listing answered with skip and limit holds at most limit rows, none of
\* them among the first skip entries of the full listing of the same store state.
C6_OffsetLimit ==
    (response.kind \in {"list_users", "list_posts"} /\ response.status = 200) =>
        LET full == FullListing(response.kind) IN
        /\ Len(response.body) <= response.arg.limit
        /\ \A i \in 1..Len(response.body) :
             \A j \in 1..Min(response.arg.skip, Len(full)) : response.body[i] # full[j]

C6_Witness ==
    /\ response.kind = "list_users" /\ response.status = 200
    /\ response.arg.skip = 1 /\ response.arg.limit = DefaultLimit
    /\ Len(response.body) = 1

\* the table an answered entity comes from
TableOf(kind) ==
    IF kind \in {"create_user", "get_user", "list_users"} THEN users ELSE posts

\* the entities a 200 response carries
Entities(resp) ==
    IF resp.kind \in {"list_users", "list_posts"}
    THEN {resp.body[i] : i \in 1..Len(resp.body)}
    ELSE {resp.body}

EntityResponse(resp) ==
    /\ resp.status = 200
    /\ resp.kind \in {"create_user", "get_user", "list_users",
                      "create_post", "get_post", "list_posts"}

\* C7 as stated: the response carries every persisted field, created_at included.
C7_AllFields ==
    EntityResponse(response) =>
        \A e \in Entities(response) :
            \E row \in Rows(TableOf(response.kind)) :
                /\ row.id = e.id
                /\ DOMAIN e = DOMAIN row
                /\ \A f \in DOMAIN row : e[f] = row[f]

\* C7 (amended): the response carries every persisted field except created_at
\* (User: id, username, email; Post: id, title, content, author_id), each equal
\* to the stored value; created_at is omitted.
C7_AllFieldsButCreatedAt ==
    EntityResponse(response) =>
        \A e \in Entities(response) :
            \E row \in Rows(TableOf(response.kind)) :
                /\ row.id = e.id
                /\ DOMAIN e = DOMAIN row \ {"created_at"}
                /\ \A f \in DOMAIN e : e[f] = row[f]

C7_Witness ==
    /\ response.kind = "create_post" /\ response.status = 200
    /\ response.body.author_id = 9
    /\ \E row \in Rows(posts) : row.id = response.body.id /\ row.created_at >= 1000

HealthStep ==
    \E q \in BagToSet(rq) \cup BagToSet(rq') : q.kind = "health_check"

\* C8: health_check answers 200 with status healthy and database connected when
\* the ping succeeds, and 503 with the error detail when it fails, which only a
\* failing store causes; no step of it changes the tables, the id sequences or
\* the counters.
C8_HealthCheck ==
    [][/\ HealthStep => UNCHANGED <<store, counters>>
       /\ response'.kind = "health_check" =>
            \/ /\ response'.status = 200
               /\ response'.body = [status |-> "healthy", database |-> "connected"]
            \/ /\ response'.status = 503
               /\ faults
               /\ DOMAIN response'.body = {"detail"}]_vars

C8_Witness ==
    /\ response.kind = "health_check" /\ response.status = 503
    /\ Len(users) = 1 /\ Len(posts) = 1

\* C9 as stated: when create_user or create_post ends in 400 the store holds no
\* row written by that request.
C9_NoPartialWrite ==
    (response.kind \in {"create_user", "create_post"} /\ response.status = 400) =>
        \A row \in Rows(TableOf(response.kind)) : row.id # response.obj.id

\* C10: a request that has completed, on whichever path (return, 404, 400 after
\* the rollback, an exception of the statement or of the rollback), has its
\* session closed; only requests in flight hold an open session.
C10_SessionClosed ==
    /\ response # NoResponse => response.session = "closed"
    /\ \A q \in BagToSet(rq) : q.session = "open"

C10_Witness ==
    /\ response.kind = "create_user" /\ response.status = 500
    /\ response.session = "closed"
    /\ \E row \in Rows(users) : row.id = response.obj.id
====
